---- MODULE Spec2Model ----
(***************************************************************************)
(* A model of the ray tracer of src/src/main.rs: the recursive tracer      *)
(* trace_ray (SpecTrace) and the render driver main (Spec).                *)
(*                                                                         *)
(* Numbers.  The program computes in f64; the model computes in integers   *)
(* on grids, and gives the f64 results on them (MulAsU8 follows the        *)
(* rounding of the f64 product where it differs from the exact one):       *)
(*   - an attenuation (albedo) component is a number of tenths, 0 .. 10;   *)
(*   - the y component of a ray direction is a number of YDen-ths; it is   *)
(*     not confined to [-1,1], trace_ray taking direction().y as it is;    *)
(*   - a pixel channel is a byte, 0 .. 255;                                *)
(*   - a ray parameter t is a number of thousandths (t_min = 0.001 is 1);  *)
(*   - a random offset in [0,1) is a number of quarters, 0 .. 3.           *)
(* The modules vec3, image, ray, hittable, camera and material are not     *)
(* part of the sources at hand; what the model needs of them (Sphere::hit, *)
(* Material::scatter, Camera::get_ray, Pixel::from_vec3,                   *)
(* Image::new/height/width/insert_pixel_at) follows their description in   *)
(* the specification; the intersections of the rays with the spheres, the  *)
(* random offsets and the answers of scatter are inputs.                   *)
(***************************************************************************)
EXTENDS Integers, Sequences, FiniteSets, TLC

VARIABLES
    \* ---- trace_ray: one primary ray and the recursion it causes ----
    tpc,        \* position: "entry", "scan", "ret", "done" ("idle" under Spec)
    world,      \* the scene: a sequence of object names, in insertion order
    depth0,     \* the max_depth of the outermost call
    max_depth,  \* the max_depth argument of the running invocation
    r,          \* the ray argument of the running invocation
    idx,        \* number of objects of world the for loop has tested
    t_closest_so_far, \* local of the running invocation
    rec,        \* local of the running invocation: NoHit or [t, obj]
    stack,      \* the suspended callers (waiting at line 37), innermost last
    ret,        \* the Pixel returned by the invocation that last returned
    calls,      \* invocations of trace_ray for the current primary ray
    tests,      \* calls of obj.hit for the current primary ray
    tmaxs,      \* the t_max arguments given to obj.hit by the running scan
    bounces,    \* the attenuations of the scatterings so far, outermost first
    terminal,   \* how the recursion ended: [kind, pixel, depth, ray]
    \* ---- main: the render loop and the output file ----
    pc,         \* "render", "create", "write", "exit" ("off" under SpecTrace)
    x, y,       \* the loop indices
    s,          \* samples of the current pixel already accumulated
    u, v,       \* numerators of the (u, v) of the last sample, over UDen, VDen
    acc,        \* the fold of line 123: the sum of the samples' colours
    stored_pixel, \* the pixel of line 125 last handed to insert_pixel_at
    inputs,     \* what the run is given: ray intersections, scatter answers
    image,      \* image[row][col]: the writes to the cell, as [px, py]
    oob,        \* a write outside the image was attempted
    fileCreated, writeAttempted, fileWritten,
    result      \* the value main returned: "none", "Ok", "Err"

tvars == <<tpc, world, depth0, max_depth, r, idx, t_closest_so_far, rec, stack,
           ret, calls, tests, tmaxs, bounces, terminal>>
dvars == <<pc, x, y, s, u, v, acc, stored_pixel,
                   inputs, image, oob, fileCreated,
           writeAttempted, fileWritten, result>>
vars == <<tpc, world, depth0, max_depth, r, idx, t_closest_so_far, rec, stack,
          ret, calls, tests, tmaxs, bounces, terminal,
          pc, x, y, s, u, v, acc, stored_pixel,
                   inputs, image, oob, fileCreated,
          writeAttempted, fileWritten, result>>

(***************************************************************************)
(* Configuration of main (lines 61-73), scaled down.                       *)
(***************************************************************************)
IMG_HEIGHT == 3
IMG_WIDTH == (IMG_HEIGHT * 16) \div 9
SAMPLES_PER_PIXEL == 2
MAX_DEPTH == 3

\* f64::INFINITY, above every ray parameter of the model
Inf == 999
\* the t_min handed to hit: 0.001, in thousandths
TMin == 1

(***************************************************************************)
(* Pixels and the f64 -> u8 cast                                           *)
(***************************************************************************)
Black == <<0, 0, 0>>

\* (num/den) as u8 for den > 0: truncation toward zero, saturating at 0 and 255
AsU8(num, den) ==
    IF num < 0 THEN 0
    ELSE IF num \div den > 255 THEN 255
    ELSE num \div den

(***************************************************************************)
(* The scene of main (lines 80-113)                                        *)
(***************************************************************************)
World == <<"ground", "left", "right", "center">>
EmptyWorld == <<>>
\* a second scene handed to trace_ray, with the albedo components the scene
\* of main does not have
OtherWorld == <<"matte", "tinted">>

MaterialOf(obj) ==
    CASE obj = "ground" -> [kind |-> "Lambertian", albedo |-> <<8, 8, 0>>]
      [] obj = "left"   -> [kind |-> "Dielectric", albedo |-> <<10, 10, 10>>]
      [] obj = "right"  -> [kind |-> "Metal",      albedo |-> <<8, 6, 2>>]
      [] obj = "center" -> [kind |-> "Lambertian", albedo |-> <<1, 2, 5>>]
      [] obj = "matte"  -> [kind |-> "Lambertian", albedo |-> <<7, 3, 9>>]
      [] obj = "tinted" -> [kind |-> "Metal",      albedo |-> <<4, 9, 7>>]

\* Material::scatter may return Some: every material can
MayScatter(m) == m.kind \in {"Lambertian", "Metal", "Dielectric"}
\* Material::scatter may return None: only Metal rejects a direction
MayAbsorb(m) == m.kind = "Metal"

(***************************************************************************)
(* The image plane coordinates of line 119                                 *)
(***************************************************************************)
\* Image::new(IMG_HEIGHT, IMG_WIDTH): image.height(), image.width()
ImageHeight == IMG_HEIGHT
ImageWidth == IMG_WIDTH

\* line 119: u = (x + random_val) / (image.width() - 1), as UNum / UDen
UNum(px, rv) == 4 * px + rv
UDen == 4 * (ImageWidth - 1)

\* line 119: v = (y + random_val) / (image.height() - 1), as VNum / VDen
VNum(py, rv) == 4 * py + rv
VDen == 4 * (ImageHeight - 1)

(***************************************************************************)
(* Rays.  A ray is given by the y component of its direction and, for each *)
(* object, the two roots of the ray/sphere quadratic (<<>>: no real root). *)
(* No module at hand normalizes a direction: Ray stores it as given, the   *)
(* camera ray points from the origin to a point of the viewport, and a     *)
(* Lambertian scatters along normal + random unit vector.                  *)
(***************************************************************************)
\* the denominator of a direction y: the camera rays' y, 2v - 1, and the
\* multiples of 1/128 are whole numbers of YDen-ths
YDen == 32 * VDen

\* k/128 as a number of YDen-ths
YOf(k) == k * (ImageHeight - 1)

\* line 120 with lines 63 and 76: the ray of get_ray(u, v) points to
\* lower_left + u*horizontal + v*vertical, whose y is VP_HEIGHT*(v - 0.5)
\* = 2v - 1 for VP_HEIGHT = 2.0 and the origin (0, 0, 0)
CameraY(vnum) == 32 * (2 * vnum - VDen)

\* direction y of the rays a material scatters: 0.171875, 1 and 1.5 (a
\* normal plus a unit vector has a y of up to 2)
DirYs == {YOf(22), YOf(128), YOf(192)}
\* direction y of the rays trace_ray is called with: -1.5, -1, 0, 1 and 3
PrimaryDirYs == {YOf(-192), YOf(-128), YOf(0), YOf(128), YOf(384)}
RootPairs == {<<>>, <<1, 3>>, <<2, 4>>}
Objects == {"ground", "left", "right", "center"}
ObjectsOf(w) == {w[i] : i \in 1 .. Len(w)}
NoRoots == [o \in Objects |-> <<>>]

RaysOf(w, ys) ==
    {[y |-> dy, roots |-> f] : dy \in ys, f \in [ObjectsOf(w) -> RootPairs]}

Rays(w) == RaysOf(w, DirYs)
PrimaryRays(w) == RaysOf(w, PrimaryDirYs)

NoHit == [t |-> Inf, obj |-> "none"]

\* Sphere::hit(ray, t_min, t_max): the smaller root if it lies in
\* (t_min, t_max), else the larger root if it does, else None
Hit(obj, ray, t_min, t_max) ==
    LET rt == ray.roots[obj]
        InRange(t) == t_min < t /\ t < t_max
    IN  IF rt = <<>> THEN NoHit
        ELSE IF InRange(rt[1]) THEN [t |-> rt[1], obj |-> obj]
        ELSE IF InRange(rt[2]) THEN [t |-> rt[2], obj |-> obj]
        ELSE NoHit

(***************************************************************************)
(* trace_ray (lines 16-58)                                                 *)
(***************************************************************************)
\* a variant of DepthExhausted: the test is max_depth < 0
DepthExhaustedStrict(d) == d < 0

\* line 18: max_depth <= 0
DepthExhausted(d) == d <= 0

\* a variant of NextDepth: the depth is passed on unchanged
NextDepthSame(d) == d

\* line 37: the depth argument of the recursive call
NextDepth(d) == d - 1

\* a variant of TMaxFor: every object is tested against +infinity
TMaxForInfinity(closest) == Inf

\* line 26: the upper bound handed to obj.hit
TMaxFor(closest) == closest

\* variants of Attenuate: the attenuation is dropped; the product is rounded
\* up; the attenuation is taken as a whole number instead of tenths
AttenuateNone(att, pixel) == pixel
AttenuateCeil(att, pixel) ==
    << AsU8(att[1] * pixel[1] + 9, 10),
       AsU8(att[2] * pixel[2] + 9, 10),
       AsU8(att[3] * pixel[3] + 9, 10) >>
AttenuateUnscaled(att, pixel) ==
    << AsU8(att[1] * pixel[1], 1),
       AsU8(att[2] * pixel[2], 1),
       AsU8(att[3] * pixel[3], 1) >>

\* the largest power of two that is at most n, for n >= 1
RECURSIVE Pow2Floor(_)
Pow2Floor(n) == IF n < 2 THEN 1 ELSE 2 * Pow2Floor(n \div 2)

\* how far the f64 nearest to k/10 lies below k/10, in tenths of 2^-53
\* (0: it is k/10 or above): 0.3, 0.6 and 0.7 are 0.1, 0.2 and 0.4 units below
F64Below(k) ==
    CASE k = 3 -> 1
      [] k = 6 -> 2
      [] k = 7 -> 4
      [] OTHER -> 0

\* lines 40-42: (att * pixel as f64) as u8 for att = k/10 and a byte p.  The
\* f64 product is the exact product of the f64 nearest to k/10 and p, rounded
\* to nearest: its integer part is that of k*p/10, except where k*p/10 is an
\* integer n and the product rounds to the f64 below n, which happens when
\* the f64 of k/10 falls short by more than half the gap of the f64s below n
MulAsU8(k, p) ==
    LET q == k * p
        n == q \div 10
    IN  IF q % 10 = 0 /\ n > 0 /\ F64Below(k) * p > 10 * Pow2Floor(n)
        THEN n - 1
        ELSE AsU8(q, 10)

\* lines 39-43: the attenuated pixel, each channel cast to u8
Attenuate(att, pixel) ==
    << MulAsU8(att[1], pixel[1]),
       MulAsU8(att[2], pixel[2]),
       MulAsU8(att[3], pixel[3]) >>

\* line 49: w = 0.5*(direction.y + 1), as a number of WDen-ths
WDen == 2 * YDen
Weight(ray) == ray.y + YDen

\* lines 50-57, one channel: (1-w) + blue*w, scaled by 255 and cast to u8
\* (negative to 0, above 255 to 255); blue in tenths
SkyChannel(w, blue) ==
    AsU8(255 * (10 * (WDen - w) + blue * w), 10 * WDen)

\* lines 50-57: white*(1-w) + blue*w for white = (1,1,1) and blue =
\* (0.5, 0.7, 1.0), for any direction y.  The weights of the model are
\* binary fractions, on which the f64 result is the exact one truncated,
\* but for w = 2 (y = 3): there the green (1-2) + 0.7*2 is 0.39999999999999997
\* as f64, the f64 of 0.7 lying below 0.7, and 255 times it is cast to 101.
SkyColor(ray) ==
    LET w == Weight(ray)
    IN  << SkyChannel(w, 5),
           IF w = 2 * WDen THEN 101 ELSE SkyChannel(w, 7),
           SkyChannel(w, 10) >>

\* lines 26-31: the body of the for loop, on the locals
\* [t: t_closest_so_far, rec: rec]
ScanStep(locals, obj, ray) ==
    LET temp_rec == Hit(obj, ray, TMin, TMaxFor(locals.t))
    IN  IF temp_rec # NoHit
        THEN [t |-> temp_rec.t, rec |-> temp_rec]
        ELSE locals

\* lines 22-32: the whole scan of the objects, in the order given
RECURSIVE ScanFrom(_, _, _)
ScanFrom(locals, objs, ray) ==
    IF objs = <<>> THEN locals
    ELSE ScanFrom(ScanStep(locals, Head(objs), ray), Tail(objs), ray)

Scan(objs, ray) == ScanFrom([t |-> Inf, rec |-> NoHit], objs, ray)

NoTerminal == [kind |-> "none", pixel |-> Black, depth |-> 0, ray |-> 0]

\* line 36: the scattered rays material().scatter may answer Some with: any
\* ray when the answers are left open, else the answer the run was given
ScatterRays(obj) ==
    IF inputs.free
    THEN IF MayScatter(MaterialOf(obj)) THEN Rays(world) ELSE {}
    ELSE IF inputs.scat[obj].some THEN {inputs.scat[obj].ray} ELSE {}

\* line 36: material().scatter may answer None
ScatterMayBeNone(obj) ==
    IF inputs.free
    THEN MayAbsorb(MaterialOf(obj))
    ELSE ~inputs.scat[obj].some

\* line 18-20: the terminal case
TraceBlack ==
    /\ tpc = "entry"
    /\ DepthExhausted(max_depth)
    /\ ret' = Black
    /\ tpc' = "ret"
    /\ terminal' = [kind |-> "exhausted", pixel |-> Black,
                    depth |-> max_depth, ray |-> r]
    /\ UNCHANGED <<world, depth0, max_depth, r, idx, t_closest_so_far, rec,
                   stack, calls, tests, tmaxs, bounces>>
    /\ UNCHANGED dvars

\* lines 22-23: the locals of the scan
BeginScan ==
    /\ tpc = "entry"
    /\ ~DepthExhausted(max_depth)
    /\ t_closest_so_far' = Inf
    /\ rec' = NoHit
    /\ idx' = 0
    /\ tmaxs' = <<>>
    /\ tpc' = "scan"
    /\ UNCHANGED <<world, depth0, max_depth, r, stack, ret, calls, tests,
                   bounces, terminal>>
    /\ UNCHANGED dvars

\* lines 25-32: one iteration of the for loop
HitTest ==
    /\ tpc = "scan"
    /\ idx < Len(world)
    /\ LET after == ScanStep([t |-> t_closest_so_far, rec |-> rec],
                             world[idx + 1], r)
       IN  /\ t_closest_so_far' = after.t
           /\ rec' = after.rec
    /\ tmaxs' = Append(tmaxs, TMaxFor(t_closest_so_far))
    /\ idx' = idx + 1
    /\ tests' = tests + 1
    /\ UNCHANGED <<tpc, world, depth0, max_depth, r, stack, ret, calls,
                   bounces, terminal>>
    /\ UNCHANGED dvars

\* lines 34-37: a hit whose material scatters: the recursive call
ScatterSome ==
    /\ tpc = "scan"
    /\ idx = Len(world)
    /\ rec # NoHit
    /\ \E new_ray \in ScatterRays(rec.obj) :
          /\ r' = new_ray
          /\ stack' = Append(stack, [depth |-> max_depth,
                                     att |-> MaterialOf(rec.obj).albedo])
          /\ bounces' = Append(bounces, MaterialOf(rec.obj).albedo)
    /\ max_depth' = NextDepth(max_depth)
    /\ calls' = calls + 1
    /\ tpc' = "entry"
    /\ idx' = 0
    /\ t_closest_so_far' = Inf
    /\ rec' = NoHit
    /\ tmaxs' = <<>>
    /\ UNCHANGED <<world, depth0, ret, tests, terminal>>
    /\ UNCHANGED dvars

\* lines 36, 46: a hit whose material absorbs
ScatterNone ==
    /\ tpc = "scan"
    /\ idx = Len(world)
    /\ rec # NoHit
    /\ ScatterMayBeNone(rec.obj)
    /\ ret' = Black
    /\ tpc' = "ret"
    /\ terminal' = [kind |-> "absorbed", pixel |-> Black,
                    depth |-> max_depth, ray |-> r]
    /\ UNCHANGED <<world, depth0, max_depth, r, idx, t_closest_so_far, rec,
                   stack, calls, tests, tmaxs, bounces>>
    /\ UNCHANGED dvars

\* lines 49-57: no hit: the sky
Sky ==
    /\ tpc = "scan"
    /\ idx = Len(world)
    /\ rec = NoHit
    /\ ret' = SkyColor(r)
    /\ tpc' = "ret"
    /\ terminal' = [kind |-> "sky", pixel |-> SkyColor(r),
                    depth |-> max_depth, ray |-> r]
    /\ UNCHANGED <<world, depth0, max_depth, r, idx, t_closest_so_far, rec,
                   stack, calls, tests, tmaxs, bounces>>
    /\ UNCHANGED dvars

\* lines 37-43: the recursive call returns into its caller, which returns
\* the attenuated pixel
Return ==
    /\ tpc = "ret"
    /\ stack # <<>>
    /\ LET frame == stack[Len(stack)]
       IN  /\ ret' = Attenuate(frame.att, ret)
           /\ max_depth' = frame.depth
    /\ stack' = SubSeq(stack, 1, Len(stack) - 1)
    /\ UNCHANGED <<tpc, world, depth0, r, idx, t_closest_so_far, rec, calls,
                   tests, tmaxs, bounces, terminal>>
    /\ UNCHANGED dvars

\* line 121: the outermost invocation returns to its caller
Finish ==
    /\ tpc = "ret"
    /\ stack = <<>>
    /\ tpc' = "done"
    /\ UNCHANGED <<world, depth0, max_depth, r, idx, t_closest_so_far, rec,
                   stack, ret, calls, tests, tmaxs, bounces, terminal>>
    /\ UNCHANGED dvars

\* main does not run under SpecTrace
DriverOff ==
    /\ pc = "off"
    /\ x = 0 /\ y = 0 /\ s = 0 /\ u = 0 /\ v = 0
    /\ acc = <<0, 0, 0>>
    /\ stored_pixel = Black
    /\ inputs = [free |-> TRUE]
    /\ image = <<>>
    /\ oob = FALSE
    /\ fileCreated = FALSE /\ writeAttempted = FALSE /\ fileWritten = FALSE
    /\ result = "none"

\* a call trace_ray(ray, world, depth0) for any ray, scene and depth of the
\* model, with every answer of scatter open
InitT ==
    /\ tpc = "entry"
    /\ world \in {World, EmptyWorld, OtherWorld}
    /\ depth0 \in 0 .. MAX_DEPTH
    /\ max_depth = depth0
    /\ r \in PrimaryRays(world)
    /\ idx = 0
    /\ t_closest_so_far = Inf
    /\ rec = NoHit
    /\ stack = <<>>
    /\ ret = Black
    /\ calls = 1
    /\ tests = 0
    /\ tmaxs = <<>>
    /\ bounces = <<>>
    /\ terminal = NoTerminal
    /\ DriverOff

NextT ==
    \/ TraceBlack
    \/ BeginScan
    \/ HitTest
    \/ ScatterSome
    \/ ScatterNone
    \/ Sky
    \/ Return
    \/ Finish

SpecTrace == InitT /\ [][NextT]_vars

(***************************************************************************)
(* main (lines 60-133): the render loop and the output file.  Every sample *)
(* calls trace_ray, whose steps are the actions above.                     *)
(***************************************************************************)
\* fastrand::f64(): a value of [0,1), in quarters
RandVals == 0 .. 3

\* a variant of RowOf: the row is height - y
RowOfNoOffset(py) == ImageHeight - py

\* line 126: the row handed to insert_pixel_at
RowOf(py) == ImageHeight - py - 1

Rows == 0 .. ImageHeight - 1
Cols == 0 .. ImageWidth - 1

\* Image::new: every cell unwritten
NewImage == [row \in Rows |-> [col \in Cols |-> <<>>]]

\* Image::insert_pixel_at(col, row, pixel) for a cell of the image: the
\* cell keeps the loop indices of each write made to it; the pixel written
\* is the stored_pixel of that step
InsertPixelAt(img, col, row, px, py) ==
    [img EXCEPT ![row][col] = Append(@, [px |-> px, py |-> py])]

\* the roots of a ray that meets one sphere only
RootsTo(obj) == [o \in Objects |-> IF o = obj THEN <<2, 4>> ELSE <<>>]

\* a ray that meets no sphere, a ray that meets one sphere only
RayToNothing(dy) == [y |-> dy, roots |-> NoRoots]
RayTo(obj, dy) == [y |-> dy, roots |-> RootsTo(obj)]

Some(ray) == [some |-> TRUE, ray |-> ray]
None == [some |-> FALSE, ray |-> RayToNothing(0)]

\* The inputs of a run of main: which spheres the camera rays of the even
\* columns and of the odd columns meet when they point downwards or level,
\* and what scatter answers at each sphere.
RunInputs ==
    { [free |-> FALSE,
       cam  |-> <<NoRoots, RootsTo("center")>>,
       scat |-> [o \in Objects |-> Some(RayToNothing(YOf(128)))]],
      [free |-> FALSE,
       cam  |-> <<RootsTo("right"), RootsTo("ground")>>,
       scat |-> [o \in Objects |->
                   CASE o = "right"  -> None
                     [] o = "ground" -> Some(RayTo("left", YOf(22)))
                     [] o = "left"   -> Some(RayTo("ground", YOf(22)))
                     [] OTHER        -> Some(RayToNothing(YOf(22)))]],
      [free |-> FALSE,
       cam  |-> <<RootsTo("ground"), NoRoots>>,
       scat |-> [o \in Objects |->
                   CASE o = "ground" -> Some(RayTo("center", YOf(22)))
                     [] OTHER        -> Some(RayToNothing(YOf(192)))]] }

\* line 120: camera.get_ray(u, v) for a sample of column px: its direction
\* y follows from v; the rays that point upwards meet no sphere
GetRay(px, vnum) ==
    [y     |-> CameraY(vnum),
     roots |-> IF CameraY(vnum) > 0 THEN NoRoots
               ELSE inputs.cam[(px % 2) + 1]]

\* lines 123-125: avg = acc / SAMPLES_PER_PIXEL, then sqrt(avg/255) * 256 and
\* Pixel::from_vec3, which truncates to a byte: the largest k with
\* (k/256)^2 <= a / (255 * SAMPLES_PER_PIXEL), at most 255
GammaChannel(a) ==
    LET ks == {k \in 0 .. 256 :
                 k * k * 255 * SAMPLES_PER_PIXEL <= 65536 * a}
        top == CHOOSE k \in ks : \A j \in ks : j <= k
    IN  IF top > 255 THEN 255 ELSE top

GammaPixel(sum) ==
    << GammaChannel(sum[1]), GammaChannel(sum[2]), GammaChannel(sum[3]) >>

\* lines 117-121: one sample of pixel (x, y): the random offset, (u, v), the
\* camera ray, and the call trace_ray(&ray, &world, MAX_DEPTH)
Sample ==
    /\ pc = "render"
    /\ tpc = "idle"
    /\ y < ImageHeight
    /\ s < SAMPLES_PER_PIXEL
    /\ \E random_val \in RandVals :
          /\ u' = UNum(x, random_val)
          /\ v' = VNum(y, random_val)
          /\ r' = GetRay(x, VNum(y, random_val))
    /\ tpc' = "entry"
    /\ depth0' = MAX_DEPTH
    /\ max_depth' = MAX_DEPTH
    /\ idx' = 0
    /\ t_closest_so_far' = Inf
    /\ rec' = NoHit
    /\ stack' = <<>>
    /\ calls' = 1
    /\ tests' = 0
    /\ tmaxs' = <<>>
    /\ bounces' = <<>>
    /\ terminal' = NoTerminal
    /\ UNCHANGED <<world, ret>>
    /\ UNCHANGED <<pc, x, y, s, acc, stored_pixel,
                   inputs, image, oob, fileCreated,
                   writeAttempted, fileWritten, result>>

\* lines 122-123: the pixel trace_ray returned is added to the fold
Accumulate ==
    /\ pc = "render"
    /\ tpc = "done"
    /\ acc' = <<acc[1] + ret[1], acc[2] + ret[2], acc[3] + ret[3]>>
    /\ s' = s + 1
    /\ tpc' = "idle"
    /\ UNCHANGED <<world, depth0, max_depth, r, idx, t_closest_so_far, rec,
                   stack, ret, calls, tests, tmaxs, bounces, terminal>>
    /\ UNCHANGED <<pc, x, y, u, v, stored_pixel, inputs, image, oob, fileCreated,
                   writeAttempted, fileWritten, result>>

\* lines 123-126 and the loop headers 115-116: the average is gamma
\* corrected and stored, and the loops advance
StorePixel ==
    /\ pc = "render"
    /\ tpc = "idle"
    /\ y < ImageHeight
    /\ s = SAMPLES_PER_PIXEL
    /\ IF RowOf(y) \in Rows /\ x \in Cols
       THEN /\ image' = InsertPixelAt(image, x, RowOf(y), x, y)
            /\ oob' = oob
       ELSE /\ image' = image
            /\ oob' = TRUE
    /\ stored_pixel' = GammaPixel(acc)
    /\ s' = 0
    /\ acc' = <<0, 0, 0>>
    /\ IF x + 1 < ImageWidth
       THEN /\ x' = x + 1
            /\ y' = y
       ELSE /\ x' = 0
            /\ y' = y + 1
    /\ UNCHANGED <<pc, u, v, inputs, fileCreated, writeAttempted, fileWritten,
                   result>>
    /\ UNCHANGED tvars

\* line 115: the outer loop ends
RenderDone ==
    /\ pc = "render"
    /\ y >= ImageHeight
    /\ pc' = "create"
    /\ UNCHANGED <<x, y, s, u, v, acc, stored_pixel,
                   inputs, image, oob, fileCreated,
                   writeAttempted, fileWritten, result>>
    /\ UNCHANGED tvars

\* line 130: File::create succeeds
CreateOk ==
    /\ pc = "create"
    /\ fileCreated' = TRUE
    /\ pc' = "write"
    /\ UNCHANGED <<x, y, s, u, v, acc, stored_pixel,
                   inputs, image, oob, writeAttempted,
                   fileWritten, result>>
    /\ UNCHANGED tvars

\* a variant of CreateFail: the error of File::create is dropped and main
\* goes on to write
CreateFailIgnored ==
    /\ pc = "create"
    /\ pc' = "write"
    /\ UNCHANGED <<x, y, s, u, v, acc, stored_pixel,
                   inputs, image, oob, fileCreated,
                   writeAttempted, fileWritten, result>>
    /\ UNCHANGED tvars

\* line 130: File::create fails and ? returns the error
CreateFail ==
    /\ pc = "create"
    /\ result' = "Err"
    /\ pc' = "exit"
    /\ UNCHANGED <<x, y, s, u, v, acc, stored_pixel,
                   inputs, image, oob, fileCreated,
                   writeAttempted, fileWritten>>
    /\ UNCHANGED tvars

\* lines 131-132: write_all succeeds and main returns Ok(())
WriteOk ==
    /\ pc = "write"
    /\ writeAttempted' = TRUE
    /\ fileWritten' = TRUE
    /\ result' = "Ok"
    /\ pc' = "exit"
    /\ UNCHANGED <<x, y, s, u, v, acc, stored_pixel,
                   inputs, image, oob, fileCreated>>
    /\ UNCHANGED tvars

\* line 131: write_all fails and ? returns the error
WriteFail ==
    /\ pc = "write"
    /\ writeAttempted' = TRUE
    /\ result' = "Err"
    /\ pc' = "exit"
    /\ UNCHANGED <<x, y, s, u, v, acc, stored_pixel,
                   inputs, image, oob, fileCreated,
                   fileWritten>>
    /\ UNCHANGED tvars

\* before the first sample no call of trace_ray is under way
TracerIdle ==
    /\ tpc = "idle"
    /\ world = World
    /\ depth0 = MAX_DEPTH
    /\ max_depth = MAX_DEPTH
    /\ r = RayToNothing(0)
    /\ idx = 0
    /\ t_closest_so_far = Inf
    /\ rec = NoHit
    /\ stack = <<>>
    /\ ret = Black
    /\ calls = 0
    /\ tests = 0
    /\ tmaxs = <<>>
    /\ bounces = <<>>
    /\ terminal = NoTerminal

\* main after line 113: the image is new, the loops are about to start
Init ==
    /\ pc = "render"
    /\ x = 0
    /\ y = 0
    /\ s = 0
    /\ u = 0
    /\ v = 0
    /\ acc = <<0, 0, 0>>
    /\ stored_pixel = Black
    /\ inputs \in RunInputs
    /\ image = NewImage
    /\ oob = FALSE
    /\ fileCreated = FALSE
    /\ writeAttempted = FALSE
    /\ fileWritten = FALSE
    /\ result = "none"
    /\ TracerIdle

Next ==
    \/ Sample
    \/ TraceBlack
    \/ BeginScan
    \/ HitTest
    \/ ScatterSome
    \/ ScatterNone
    \/ Sky
    \/ Return
    \/ Finish
    \/ Accumulate
    \/ StorePixel
    \/ RenderDone
    \/ CreateOk
    \/ CreateFail
    \/ WriteOk
    \/ WriteFail

Spec == Init /\ [][Next]_vars

(***************************************************************************)
(* The accumulator loop the design notes propose in place of the           *)
(* recursion: the attenuations are multiplied into one accumulator, which  *)
(* is applied once to the terminal colour.                                 *)
(***************************************************************************)
RECURSIVE ProdAtt(_, _)
ProdAtt(atts, c) ==
    IF atts = <<>> THEN 1 ELSE Head(atts)[c] * ProdAtt(Tail(atts), c)

RECURSIVE Pow10(_)
Pow10(n) == IF n = 0 THEN 1 ELSE 10 * Pow10(n - 1)

\* one channel: the accumulator starts at 1.0; with one factor it is that
\* factor and the product is that of MulAsU8; with more factors it is taken
\* as their exact product
LoopChannel(atts, term, c) ==
    IF Len(atts) = 0 THEN term[c]
    ELSE IF Len(atts) = 1 THEN MulAsU8(atts[1][c], term[c])
    ELSE AsU8(ProdAtt(atts, c) * term[c], Pow10(Len(atts)))

LoopTrace(atts, term) ==
    << LoopChannel(atts, term, 1),
       LoopChannel(atts, term, 2),
       LoopChannel(atts, term, 3) >>

(***************************************************************************)
(* Notions the properties of trace_ray are stated with                     *)
(***************************************************************************)
Channels == 1 .. 3

\* the smallest root of the ray on obj above t_min, Inf when there is none
NearestOf(obj, ray) ==
    LET rt == ray.roots[obj]
    IN  IF rt = <<>> THEN Inf
        ELSE IF rt[1] > TMin THEN rt[1]
        ELSE IF rt[2] > TMin THEN rt[2]
        ELSE Inf

\* the smallest of a non-empty set of numbers
MinOf(S) == CHOOSE m \in S : \A n \in S : m <= n

\* the nearest hit of the ray among the first n objects of objs
NearestAmong(objs, n, ray) ==
    MinOf({Inf} \cup {NearestOf(objs[i], ray) : i \in 1 .. n})

\* every insertion order of the objects of the scene
Orders == {p \in [1 .. Len(World) -> Objects] :
              \A i, j \in 1 .. Len(World) : p[i] = p[j] => i = j}

\* a variant function of trace_ray's execution
Rank ==
    LET n == Len(world)
    IN  CASE tpc = "entry" -> MAX_DEPTH + 2 + max_depth * (n + 3) + n + 2
          [] tpc = "scan"  -> MAX_DEPTH + 2 + max_depth * (n + 3) + n + 1 - idx
          [] tpc = "ret"   -> 1 + Len(stack)
          [] OTHER         -> 0

(***************************************************************************)
(* Properties of trace_ray, checked under SpecTrace                        *)
(***************************************************************************)

\* C1: an invocation with max_depth = 0 returns the black pixel whatever the
\* ray and the scene, tests no object (it never enters the scan, and the
\* number of hit tests is that of its callers alone) and makes no recursive
\* call (it is the last invocation).
C1_DepthZeroBlack ==
    /\ max_depth = 0 => tpc \in {"entry", "ret", "done"} /\ idx = 0 /\ tmaxs = <<>>
    /\ (max_depth = 0 /\ tpc \in {"ret", "done"}) =>
          /\ ret = <<0, 0, 0>>
          /\ terminal.kind = "exhausted"
          /\ tests = Len(world) * Len(stack)
          /\ calls = Len(stack) + 1

\* C1 witness: a depth-0 invocation has returned for a ray that hits objects
\* of a non-empty scene
C1_Witness ==
    /\ tpc = "ret"
    /\ max_depth = 0
    /\ world = World
    /\ NearestAmong(world, Len(world), r) < Inf
    /\ Len(stack) = MAX_DEPTH

\* C2: trace_ray terminates: every step lowers the variant Rank; a recursive
\* call is made with depth exactly one less than its caller's, an invocation
\* makes at most one recursive call (once it returns, no call follows), the
\* depth never goes below 0 and there are at most depth0+1 <= MAX_DEPTH+1
\* invocations.
C2_Terminates ==
    /\ [](/\ max_depth \in 0 .. depth0
          /\ calls <= depth0 + 1
          /\ calls <= MAX_DEPTH + 1
          /\ calls = Len(bounces) + 1
          /\ \A i \in 1 .. Len(stack) : stack[i].depth = depth0 - i + 1
          /\ tpc \in {"entry", "scan"} =>
                /\ max_depth = depth0 - Len(stack)
                /\ calls = Len(stack) + 1)
    /\ [][/\ Rank' < Rank
          /\ Rank' >= 0
          /\ tpc \in {"ret", "done"} => calls' = calls
          /\ calls' \in {calls, calls + 1}
          /\ calls' = calls + 1 => max_depth' = max_depth - 1]_vars

\* C2 witness: a primary ray traced from MAX_DEPTH has bounced down to depth
\* 0 and the outermost invocation has returned, after MAX_DEPTH+1 invocations
C2_Witness ==
    /\ tpc = "done"
    /\ depth0 = MAX_DEPTH
    /\ calls = MAX_DEPTH + 1

\* C3: during the scan the upper bounds handed to hit never increase, the
\* recorded hit is the nearest hit among the objects tested so far, and after
\* the loop it is the nearest hit of the whole scene, with the same t for
\* every insertion order of the objects.
C3_NearestHit ==
    tpc = "scan" =>
       /\ \A i \in 1 .. Len(tmaxs) - 1 : tmaxs[i + 1] <= tmaxs[i]
       /\ Len(tmaxs) = idx
       /\ \A i \in 1 .. Len(tmaxs) : t_closest_so_far <= tmaxs[i]
       /\ t_closest_so_far = NearestAmong(world, idx, r)
       /\ rec.t = t_closest_so_far
       /\ rec # NoHit => /\ NearestOf(rec.obj, r) = rec.t
                         /\ TMin < rec.t /\ rec.t < Inf
       /\ rec = NoHit <=> t_closest_so_far = Inf
       /\ (idx = Len(world) /\ world = World) =>
             \A p \in Orders : Scan(p, r).t = t_closest_so_far

\* C3 witness: the scan is over; the first object was hit at 3, a later one
\* at 2, and the last object's hit at 3 lies beyond the tightened bound
C3_Witness ==
    /\ tpc = "scan"
    /\ idx = Len(world)
    /\ world = World
    /\ r.roots["ground"] = <<1, 3>>
    /\ r.roots["left"] = <<2, 4>>
    /\ r.roots["center"] = <<1, 3>>
    /\ rec = [t |-> 2, obj |-> "left"]
    /\ tmaxs = <<Inf, 3, 2, 2>>

\* C4: a recursive call is made only at depth > 0 for a hit, with the hit
\* material's attenuation and depth-1; when it returns, the caller returns,
\* per channel, the f64 product of the attenuation and the returned channel
\* truncated to a byte (the integer part of the exact product, or one less
\* where the f64 product rounds below a whole number); on absorption the
\* invocation returns black without a recursive call.
C4_ScatterProduct ==
    [][/\ (tpc = "scan" /\ tpc' = "entry") =>
             /\ max_depth > 0
             /\ rec # NoHit
             /\ stack' = Append(stack, [depth |-> max_depth,
                                        att |-> MaterialOf(rec.obj).albedo])
             /\ max_depth' = max_depth - 1
       /\ (tpc = "ret" /\ tpc' = "ret") =>
             /\ stack # <<>>
             /\ \A c \in Channels :
                   LET product == stack[Len(stack)].att[c] * ret[c]
                   IN  /\ ret'[c] = MulAsU8(stack[Len(stack)].att[c], ret[c])
                       /\ 10 * ret'[c] <= product
                       /\ product < 10 * (ret'[c] + 2)
                       /\ (product % 10 # 0
                             \/ stack[Len(stack)].att[c] \notin {3, 6, 7})
                          => ret'[c] = product \div 10
             /\ max_depth = stack[Len(stack)].depth - 1
             /\ max_depth' = stack[Len(stack)].depth
       /\ (tpc = "scan" /\ tpc' = "ret" /\ rec # NoHit) =>
             /\ ret' = <<0, 0, 0>>
             /\ calls' = calls
             /\ stack' = stack
             /\ terminal'.kind = "absorbed"]_vars

\* C4 witness: a caller has returned the attenuated sky colour of its
\* scattered ray, here 0.7 * 180 as f64, which is just below 126
C4_Witness ==
    /\ tpc = "ret"
    /\ Len(bounces) > 0
    /\ Len(stack) = Len(bounces) - 1
    /\ terminal.kind = "sky"
    /\ terminal.pixel = <<180, 210, 255>>
    /\ bounces[Len(bounces)] = <<7, 3, 9>>
    /\ ret = <<125, 63, 229>>

\* the sky gradient of C5: with w = 0.5*(y+1), each channel is
\* 255 * (white*(1-w) + blue*w) truncated to a byte
Gradient(j) ==
    << (255 * (2 * WDen - j)) \div (2 * WDen),
       (255 * (10 * WDen - 3 * j)) \div (10 * WDen),
       255 >>

\* at depth > 0 a ray returns the sky colour exactly when it hits nothing
SkyWhenNoHit ==
    /\ terminal.kind = "sky" =>
          /\ terminal.depth > 0
          /\ \A i \in 1 .. Len(world) : NearestOf(world[i], terminal.ray) = Inf
    /\ (terminal.kind # "none" /\ terminal.depth > 0
          /\ \A i \in 1 .. Len(world) : NearestOf(world[i], terminal.ray) = Inf)
       => terminal.kind = "sky"
    /\ (tpc = "ret" /\ terminal.kind = "sky" /\ Len(stack) = Len(bounces))
       => ret = terminal.pixel

SkyGradientWhereWeightInUnit ==
    /\ SkyWhenNoHit
    /\ (terminal.kind = "sky" /\ terminal.ray.y + YDen \in 0 .. WDen) =>
          /\ terminal.pixel = Gradient(terminal.ray.y + YDen)
          /\ terminal.ray.y = -YDen => terminal.pixel = <<255, 255, 255>>
          /\ terminal.ray.y = YDen => terminal.pixel = <<127, 178, 255>>

\* a ray of the driver has reached the sky with a weight above 1
SkyWeightAboveOne ==
    /\ pc = "render"
    /\ terminal.kind = "sky"
    /\ terminal.ray.y > YDen

\* C9 as stated: for every bounce sequence the recursion returns the pixel
\* of the accumulator loop.
C9_LoopIdentical ==
    tpc = "done" => ret = LoopTrace(bounces, terminal.pixel)

\* C9 amended: the recursion returns the pixel of the accumulator loop when
\* there is at most one bounce or the terminal colour is black.
C9_LoopIdenticalUpToOneBounce ==
    (tpc = "done" /\ (Len(bounces) <= 1 \/ terminal.pixel = <<0, 0, 0>>))
       => ret = LoopTrace(bounces, terminal.pixel)

\* C9 witness: one bounce that reached the sky, with an attenuation that
\* changes the colour
C9_Witness ==
    /\ tpc = "done"
    /\ Len(bounces) = 1
    /\ terminal.kind = "sky"
    /\ ret # terminal.pixel
    /\ ret # <<0, 0, 0>>

\* C10: every returned pixel has its channels in 0 .. 255 and none above the
\* terminal colour's; when a recursive call returns, no channel the caller
\* returns is greater than the one it received.
C10_NeverBrighter ==
    /\ [](tpc \in {"ret", "done"} =>
             \A c \in Channels : /\ ret[c] \in 0 .. 255
                                 /\ ret[c] <= terminal.pixel[c])
    /\ [][(tpc = "ret" /\ tpc' = "ret") =>
             \A c \in Channels : ret'[c] <= ret[c]]_vars

\* C10 witness: two bounces have darkened, not blackened, the red of the sky
C10_Witness ==
    /\ tpc = "done"
    /\ Len(bounces) >= 2
    /\ terminal.kind = "sky"
    /\ ret[1] > 0
    /\ ret[1] < terminal.pixel[1]

(***************************************************************************)
(* Properties of main, checked under Spec                                  *)
(***************************************************************************)

\* the cells of the image the loop has stored so far: those of the pixels
\* before (x, y) in loop order
Stored(row, col) ==
    LET py == ImageHeight - 1 - row
    IN  py < y \/ (py = y /\ col < x)

AllWrittenOnce ==
    \A row \in Rows : \A col \in Cols : Len(image[row][col]) = 1

\* C6: the (u, v) of every sample of pixel (x, y) lie in [0,1] and inside
\* the footprint of the pixel, which at the pixel pitch of line 119 is
\* [x/(width-1), (x+1)/(width-1)] by [y/(height-1), (y+1)/(height-1)].
C6_UVInsidePixel ==
    (pc = "render" /\ tpc # "idle") =>
       /\ 0 <= u /\ u <= UDen
       /\ 0 <= v /\ v <= VDen
       /\ 4 * x <= u /\ u <= 4 * (x + 1)
       /\ 4 * y <= v /\ v <= 4 * (y + 1)

\* C7: no write falls outside the image; a cell is written at most once, by
\* the loop indices x = column and y = height-1-row; the cells written are
\* those of the pixels the loop has passed, so all of them once the loop has
\* ended; and the samples of row 0 (y = height-1) have a larger v than
\* every sample of another row.
C7_EveryCellOnce ==
    /\ oob = FALSE
    /\ \A row \in Rows : \A col \in Cols :
          /\ Len(image[row][col]) <= 1
          /\ Len(image[row][col]) = 1 <=> Stored(row, col)
          /\ Len(image[row][col]) = 1 =>
                /\ image[row][col][1].px = col
                /\ image[row][col][1].py = ImageHeight - 1 - row
    /\ pc # "render" => AllWrittenOnce
    /\ (pc = "render" /\ y < ImageHeight) =>
          /\ 0 <= ImageHeight - y - 1
          /\ ImageHeight - y - 1 < ImageHeight
    /\ \A col \in Cols : image[0][col] # <<>> =>
          /\ image[0][col][1].py = ImageHeight - 1
          /\ \A py \in 0 .. ImageHeight - 2 : \A rv1, rv2 \in RandVals :
                VNum(py, rv1) < VNum(image[0][col][1].py, rv2)

\* C7 witness: the loop has ended and the top-left cell holds the pixel of
\* the last loop row
C7_Witness ==
    /\ pc = "create"
    /\ Len(image[0][0]) = 1
    /\ image[0][0][1].px = 0
    /\ image[0][0][1].py = ImageHeight - 1
    /\ Len(image[ImageHeight - 1][ImageWidth - 1]) = 1
    /\ image[ImageHeight - 1][ImageWidth - 1][1].py = 0
    /\ stored_pixel # <<0, 0, 0>>

\* C8: the file is created and written only after every pixel was stored;
\* the write is attempted only after a successful create; main returns Ok
\* exactly when both steps succeeded and Err when either failed, and it
\* returns as soon as one fails.
C8_FileAfterRender ==
    /\ (pc \in {"create", "write", "exit"} \/ fileCreated \/ writeAttempted)
          => (AllWrittenOnce /\ y = ImageHeight /\ tpc = "idle" /\ s = 0)
    /\ writeAttempted => fileCreated
    /\ fileWritten => writeAttempted
    /\ result = "Ok" <=> (fileCreated /\ fileWritten)
    /\ result = "Err" <=> (pc = "exit" /\ (~fileCreated \/ ~fileWritten))
    /\ pc = "exit" <=> result # "none"
    /\ pc = "write" <=> (fileCreated /\ ~writeAttempted)

\* C8 witness: File::create failed: main returned the error and did not
\* attempt the write
C8_Witness ==
    /\ pc = "exit"
    /\ result = "Err"
    /\ ~fileCreated
    /\ ~writeAttempted
    /\ AllWrittenOnce

====
